---- MODULE Spec2Model ----
(***************************************************************************)
(* Model of the Sejong apartment classifier (sejong_data_processor.py) and *)
(* of the extractor's HTTP request with retry (main.py).                   *)
(*                                                                         *)
(* Python strings are modelled as sequences of characters.  The source's   *)
(* strings are Korean; each Hangul syllable (one code point in Python) is  *)
(* written here as one romanised token, so "가락" is <<"ga", "rak">> and    *)
(* the substring relation between names and keywords is the source's one.  *)
(* Dictionary keys are romanised the same way; the original key is given   *)
(* in the comment next to each.                                            *)
(***************************************************************************)
EXTENDS Integers, Sequences, FiniteSets, TLC

\* ------------------------------------------------------------------------
\* Bounds of the model
\* ------------------------------------------------------------------------

\* records in one input of process_data
MaxLen == 2

\* name fragments concatenated into one complex name given to classify_village
MaxFrags == 2

\* numeric inputs are taken within this distance of every band boundary
Delta == 1

VARIABLES
    call,            \* the last classifier call: [fn, arg, ret]
    data,            \* process_data: the argument `data`
    pc,              \* process_data: position of the run
    idx,             \* process_data: 1-based index of the next item of the for loop
    processed_data,  \* process_data: local processed_data
    village_stats,   \* process_data: local village_stats
    price_stats,     \* process_data: local price_stats
    total_count,     \* process_data: local total_count
    result,          \* what process_data returned to main (or the exception)
    shards,          \* a split of `data` into two shards
    shard_results,   \* what process_data returned for each shard
    retry            \* one call of _request_with_retry: its arguments, locals and outcome

vars == <<call, data, pc, idx, processed_data, village_stats, price_stats,
          total_count, result, shards, shard_results, retry>>

runVars == <<data, pc, idx, processed_data, village_stats, price_stats,
             total_count, result>>

shardVars == <<shards, shard_results>>

\* ------------------------------------------------------------------------
\* Python values.  Every value has the same three fields so that values of
\* different Python types can be compared.
\* ------------------------------------------------------------------------

\* Python None (pandas NaN cells are turned into None by main)
None == [t |-> "None", n |-> 0, s |-> <<>>]

\* a Python number
Num(n) == [t |-> "num", n |-> n, s |-> <<>>]

\* a Python str, as its sequence of characters
Str(s) == [t |-> "str", n |-> 0, s |-> s]

\* Python `not x`: None, 0 and '' are falsy
Falsy(x) ==
    \/ x.t = "None"
    \/ x.t = "num" /\ x.n = 0
    \/ x.t = "str" /\ x.s = <<>>

\* what a call gives back: a returned str, or the exception it raised
Returned(s) == [exc |-> "", value |-> s]

Raised(e) == [exc |-> e, value |-> <<>>]

\* `needle in hay` for two str
In(needle, hay) ==
    \E i \in 0..(Len(hay) - Len(needle)) :
        SubSeq(hay, i + 1, i + Len(needle)) = needle

\* the whitespace str.strip() removes, of the characters names are made of
Whitespace == {" "}

RECURSIVE lstrip(_)
lstrip(s) ==
    IF s # <<>> /\ Head(s) \in Whitespace THEN lstrip(Tail(s)) ELSE s

RECURSIVE rstrip(_)
rstrip(s) ==
    IF s # <<>> /\ s[Len(s)] \in Whitespace
    THEN rstrip(SubSeq(s, 1, Len(s) - 1))
    ELSE s

\* str.strip()
strip(s) == rstrip(lstrip(s))

\* ------------------------------------------------------------------------
\* SejongApartmentClassifier.__init__ : the rule tables
\* ------------------------------------------------------------------------

\* '마을' (village), the suffix of most village names
Maeul == <<"ma", "eul">>

\* self.village_keywords, in insertion order
village_keywords == <<
    [keyword |-> <<"ga", "rak">>,          village_name |-> <<"ga", "rak">> \o Maeul],          \* 가락 -> 가락마을
    [keyword |-> <<"ga", "on">>,           village_name |-> <<"ga", "on">> \o Maeul],           \* 가온 -> 가온마을
    [keyword |-> <<"ga", "jae">>,          village_name |-> <<"ga", "jae">> \o Maeul],          \* 가재 -> 가재마을
    [keyword |-> <<"na", "rit", "jae">>,   village_name |-> <<"na", "rit", "jae">> \o Maeul],   \* 나릿재 -> 나릿재마을
    [keyword |-> <<"do", "raem">>,         village_name |-> <<"do", "raem">> \o Maeul],         \* 도램 -> 도램마을
    [keyword |-> <<"beom", "ji", "gi">>,   village_name |-> <<"beom", "ji", "gi">> \o Maeul],   \* 범지기 -> 범지기마을
    [keyword |-> <<"san", "ul">>,          village_name |-> <<"san", "ul">> \o Maeul],          \* 산울 -> 산울마을
    [keyword |-> <<"sae", "na", "ru">>,    village_name |-> <<"sae", "na", "ru">> \o Maeul],    \* 새나루 -> 새나루마을
    [keyword |-> <<"sae", "tteum">>,       village_name |-> <<"sae", "tteum">> \o Maeul],       \* 새뜸 -> 새뜸마을
    [keyword |-> <<"sae", "saem">>,        village_name |-> <<"sae", "saem">> \o Maeul],        \* 새샘 -> 새샘마을
    [keyword |-> <<"su", "ru", "bae">>,    village_name |-> <<"su", "ru", "bae">> \o Maeul],    \* 수루배 -> 수루배마을
    [keyword |-> <<"cheot", "ma", "eul">>, village_name |-> <<"cheot", "ma", "eul">>],          \* 첫마을 -> 첫마을
    [keyword |-> <<"han", "tteul">>,       village_name |-> <<"han", "tteul">> \o Maeul],       \* 한뜰 -> 한뜰마을
    [keyword |-> <<"hae", "deul">>,        village_name |-> <<"hae", "deul">> \o Maeul],        \* 해들 -> 해들마을
    [keyword |-> <<"hae", "mil">>,         village_name |-> <<"hae", "mil">> \o Maeul],         \* 해밀 -> 해밀마을
    [keyword |-> <<"ho", "ryeo", "ul">>,   village_name |-> <<"ho", "ryeo", "ul">> \o Maeul]    \* 호려울 -> 호려울마을
>>

\* '억' followed by '대': "N억대"
EokDae(d) == <<d, "eok", "dae">>

\* self.price_ranges: (min_price, max_price, range_name)
price_ranges == <<
    <<0,     10000,  <<"1", "eok", " ", "mi", "man">>>>,    \* '1억 미만'
    <<10000, 19999,  EokDae("1")>>,                          \* '1억대'
    <<20000, 29999,  EokDae("2")>>,                          \* '2억대'
    <<30000, 39999,  EokDae("3")>>,                          \* '3억대'
    <<40000, 49999,  EokDae("4")>>,                          \* '4억대'
    <<50000, 59999,  EokDae("5")>>,                          \* '5억대'
    <<60000, 69999,  EokDae("6")>>,                          \* '6억대'
    <<70000, 79999,  EokDae("7")>>,                          \* '7억대'
    <<80000, 89999,  EokDae("8")>>,                          \* '8억대'
    <<90000, 200000, <<"9", "eok", " ", "i", "sang">>>>     \* '9억 이상'
>>

\* '기타(도시형/오피스텔)', the label of a name no rule matches
Gita == <<"gi", "ta", "(", "do", "si", "hyeong", "/", "o", "pi", "seu", "tel", ")">>

\* '우빈가온', the name that is classified before the keywords
UbinGaon == <<"u", "bin", "ga", "on">>

\* '도담', the second spelling of 도램마을
Dodam == <<"do", "dam">>

\* '도램마을'
DoraemMaeul == <<"do", "raem">> \o Maeul

\* '정보없음' (no information), the label of a falsy price or area
JeongboEopseum == <<"jeong", "bo", "eops", "eum">>

\* '9억 이상', the label classify_price_range returns after its loop
GuEokIsang == <<"9", "eok", " ", "i", "sang">>

\* '소형 (85㎡ 이하)'
Sohyeong == <<"so", "hyeong", " ", "(", "8", "5", "m2", " ", "i", "ha", ")">>

\* '중형 (85-115㎡)'
Junghyeong == <<"jung", "hyeong", " ", "(", "8", "5", "-", "1", "1", "5", "m2", ")">>

\* '대형 (115-175㎡)'
Daehyeong == <<"dae", "hyeong", " ", "(", "1", "1", "5", "-", "1", "7", "5", "m2", ")">>

\* '초대형 (175㎡ 초과)'
Chodaehyeong == <<"cho", "dae", "hyeong", " ", "(", "1", "7", "5", "m2", " ", "cho", "gwa", ")">>

\* the "area_types" table export_classification_schema writes
area_types == <<
    [min |-> 0,   max |-> 85,   name |-> Sohyeong],
    [min |-> 85,  max |-> 115,  name |-> Junghyeong],
    [min |-> 115, max |-> 175,  name |-> Daehyeong],
    [min |-> 175, max |-> 1000, name |-> Chodaehyeong]
>>

\* the "villages" list export_classification_schema writes
villages == [k \in 1..(Len(village_keywords) + 1) |->
                IF k <= Len(village_keywords)
                THEN village_keywords[k].village_name
                ELSE Gita]

\* ------------------------------------------------------------------------
\* classify_village
\* ------------------------------------------------------------------------

\* the for loop over village_keywords.items(), from the k-th pair on:
\* the village of the first keyword found in the name, <<>> when the loop ends
RECURSIVE MatchKeyword(_, _)
MatchKeyword(complex_name, k) ==
    IF k > Len(village_keywords) THEN <<>>
    ELSE IF In(village_keywords[k].keyword, complex_name)
         THEN village_keywords[k].village_name
         ELSE MatchKeyword(complex_name, k + 1)

\* mutant: the keyword loop runs before the '우빈가온' exception
classify_village_KeywordsFirst(complex_name) ==
    IF complex_name.t # "str" THEN Raised("AttributeError")
    ELSE LET name == strip(complex_name.s)
             hit == MatchKeyword(name, 1)
         IN  IF hit # <<>> THEN Returned(hit)
             ELSE IF In(UbinGaon, name) THEN Returned(Gita)
             ELSE IF In(Dodam, name) THEN Returned(DoraemMaeul)
             ELSE Returned(Gita)

classify_village(complex_name) ==
    IF complex_name.t # "str" THEN Raised("AttributeError")  \* None.strip()
    ELSE LET name == strip(complex_name.s)
             hit == MatchKeyword(name, 1)
         IN  IF In(UbinGaon, name) THEN Returned(Gita)
             ELSE IF hit # <<>> THEN Returned(hit)
             ELSE IF In(Dodam, name) THEN Returned(DoraemMaeul)
             ELSE Returned(Gita)

\* ------------------------------------------------------------------------
\* classify_price_range
\* ------------------------------------------------------------------------

\* the for loop over self.price_ranges, from the k-th triple on
RECURSIVE MatchRange(_, _)
MatchRange(price, k) ==
    IF k > Len(price_ranges) THEN GuEokIsang
    ELSE IF price_ranges[k][1] <= price /\ price < price_ranges[k][2]
         THEN price_ranges[k][3]
         ELSE MatchRange(price, k + 1)

\* mutant: only None is taken as "no price" (`if price is None`)
classify_price_range_NoneOnly(price) ==
    IF price.t = "None" THEN Returned(JeongboEopseum)
    ELSE IF price.t # "num" THEN Raised("TypeError")
    ELSE Returned(MatchRange(price.n, 1))

classify_price_range(price) ==
    IF Falsy(price) THEN Returned(JeongboEopseum)
    ELSE IF price.t # "num" THEN Raised("TypeError")  \* 0 <= 'text'
    ELSE Returned(MatchRange(price.n, 1))

\* ------------------------------------------------------------------------
\* classify_area_type
\* ------------------------------------------------------------------------

\* mutant: the comparisons exclude the threshold
classify_area_type_Exclusive(area) ==
    IF Falsy(area) THEN Returned(JeongboEopseum)
    ELSE IF area.t # "num" THEN Raised("TypeError")
    ELSE IF area.n < 85 THEN Returned(Sohyeong)
    ELSE IF area.n < 115 THEN Returned(Junghyeong)
    ELSE IF area.n < 175 THEN Returned(Daehyeong)
    ELSE Returned(Chodaehyeong)

classify_area_type(area) ==
    IF Falsy(area) THEN Returned(JeongboEopseum)
    ELSE IF area.t # "num" THEN Raised("TypeError")  \* 'text' <= 85
    ELSE IF area.n <= 85 THEN Returned(Sohyeong)
    ELSE IF area.n <= 115 THEN Returned(Junghyeong)
    ELSE IF area.n <= 175 THEN Returned(Daehyeong)
    ELSE Returned(Chodaehyeong)

\* ------------------------------------------------------------------------
\* process_data
\* ------------------------------------------------------------------------

\* '단지명' (complex name)
F_danjimyeong == "danjimyeong"

\* '중간매매가(만원)' (median sale price)
F_junggan_maemaega == "jungganmaemaega(manwon)"

\* '대표면적(㎡)' (representative area)
F_daepyo_myeonjeok == "daepyomyeonjeok(m2)"

\* '마을분류' (village label)
F_maeul_bunryu == "maeulbunryu"

\* '가격구간' (price band label)
F_gagyeok_gugan == "gagyeokgugan"

\* '평형구간' (size band label)
F_pyeonghyeong_gugan == "pyeonghyeonggugan"

\* the three keys process_data adds to every item
LabelFields == {F_maeul_bunryu, F_gagyeok_gugan, F_pyeonghyeong_gugan}

\* dict.get(key, default)
Get(item, key, default) == IF key \in DOMAIN item THEN item[key] ELSE default

\* a dict with no key
EmptyDict == [k \in {} |-> None]

\* dict d with d[k] = v set
Put(d, k, v) == [x \in DOMAIN d \cup {k} |-> IF x = k THEN v ELSE d[x]]

RECURSIVE sum(_)
sum(prices) == IF prices = <<>> THEN 0 ELSE Head(prices) + sum(Tail(prices))

min(prices) == CHOOSE p \in {prices[i] : i \in DOMAIN prices} :
                   \A i \in DOMAIN prices : p <= prices[i]

max(prices) == CHOOSE p \in {prices[i] : i \in DOMAIN prices} :
                   \A i \in DOMAIN prices : p >= prices[i]

RECURSIVE GCD(_, _)
GCD(a, b) == IF b = 0 THEN a ELSE GCD(b, a % b)

\* the quotient a / b (b > 0) of Python's true division, as a fraction in
\* lowest terms
Quot(a, b) ==
    LET g == GCD(IF a < 0 THEN -a ELSE a, b)
    IN  [num |-> a \div g, den |-> b \div g]

\* mutant: only the three fields process_data reads are copied
processed_item_KnownFieldsOnly(item, village, price_range, area_type) ==
    [k \in (DOMAIN item \cap {F_danjimyeong, F_junggan_maemaega, F_daepyo_myeonjeok})
           \cup LabelFields |->
        IF k = F_maeul_bunryu THEN Str(village)
        ELSE IF k = F_gagyeok_gugan THEN Str(price_range)
        ELSE IF k = F_pyeonghyeong_gugan THEN Str(area_type)
        ELSE item[k]]

\* {**item, '마을분류': village, '가격구간': price_range, '평형구간': area_type}
processed_item(item, village, price_range, area_type) ==
    [k \in DOMAIN item \cup LabelFields |->
        IF k = F_maeul_bunryu THEN Str(village)
        ELSE IF k = F_gagyeok_gugan THEN Str(price_range)
        ELSE IF k = F_pyeonghyeong_gugan THEN Str(area_type)
        ELSE item[k]]

\* the village_stats update of one iteration
collect_village(stats, village, price) ==
    LET with_key == IF village \in DOMAIN stats THEN stats
                    ELSE Put(stats, village, <<>>)
    IN  IF ~Falsy(price)
        THEN Put(with_key, village, Append(with_key[village], price.n))
        ELSE with_key

\* mutant: the count is set, not incremented
count_price_NoIncrement(stats, price_range) ==
    Put(stats, price_range, 1)

\* the price_stats update of one iteration
count_price(stats, price_range) ==
    LET with_key == IF price_range \in DOMAIN stats THEN stats
                    ELSE Put(stats, price_range, 0)
    IN  Put(with_key, price_range, with_key[price_range] + 1)

\* the locals of process_data before the for loop
process_data_locals ==
    [processed_data |-> <<>>, village_stats |-> EmptyDict,
     price_stats |-> EmptyDict, exc |-> ""]

\* one iteration of `for item in data`: the locals after it, exc set when
\* a classifier raised (nothing is updated before the three calls)
process_item(st, item) ==
    LET complex_name == Get(item, F_danjimyeong, Str(<<>>))
        price == Get(item, F_junggan_maemaega, Num(0))
        area == Get(item, F_daepyo_myeonjeok, Num(0))
        village == classify_village(complex_name)
        price_range == classify_price_range(price)
        area_type == classify_area_type(area)
    IN  IF village.exc # "" THEN [st EXCEPT !.exc = village.exc]
        ELSE IF price_range.exc # "" THEN [st EXCEPT !.exc = price_range.exc]
        ELSE IF area_type.exc # "" THEN [st EXCEPT !.exc = area_type.exc]
        ELSE [processed_data |->
                 Append(st.processed_data,
                        processed_item(item, village.value, price_range.value,
                                       area_type.value)),
              village_stats |-> collect_village(st.village_stats, village.value, price),
              price_stats |-> count_price(st.price_stats, price_range.value),
              exc |-> ""]

\* mutant: the lowest price is taken to be the first one collected
village_summary_entry_FirstAsMin(prices, total) ==
    [danjisu |-> Len(prices),
     pyeonggyun_gagyeok |-> Quot(sum(prices), Len(prices)),
     choejeo_gagyeok |-> prices[1],
     choego_gagyeok |-> max(prices),
     biyul |-> Quot(Len(prices) * 100, total)]

\* one entry of village_summary:
\*   danjisu '단지수', pyeonggyun_gagyeok '평균가격', choejeo_gagyeok '최저가격',
\*   choego_gagyeok '최고가격', biyul '비율'
village_summary_entry(prices, total) ==
    [danjisu |-> Len(prices),
     pyeonggyun_gagyeok |-> Quot(sum(prices), Len(prices)),
     choejeo_gagyeok |-> min(prices),
     choego_gagyeok |-> max(prices),
     biyul |-> Quot(Len(prices) * 100, total)]

\* the loop computing village_summary
village_summary_of(stats, total) ==
    [village \in {v \in DOMAIN stats : stats[v] # <<>>} |->
        village_summary_entry(stats[village], total)]

\* what process_data gives its caller: the returned dict (exc = ""), or the
\* exception that left it
process_data_result(st, total) ==
    IF st.exc # ""
    THEN [exc |-> st.exc, processed_data |-> <<>>, village_summary |-> EmptyDict,
          price_distribution |-> EmptyDict, total_count |-> 0]
    ELSE [exc |-> "", processed_data |-> st.processed_data,
          village_summary |-> village_summary_of(st.village_stats, total),
          price_distribution |-> st.price_stats, total_count |-> total]

\* no call of process_data has ended
NoResult ==
    [exc |-> "pending", processed_data |-> <<>>, village_summary |-> EmptyDict,
     price_distribution |-> EmptyDict, total_count |-> 0]

\* the for loop from the locals st over the items d
RECURSIVE process_items(_, _)
process_items(st, d) ==
    IF d = <<>> \/ st.exc # "" THEN st
    ELSE process_items(process_item(st, Head(d)), Tail(d))

\* process_data as one call
process_data(d) == process_data_result(process_items(process_data_locals, d), Len(d))

\* ------------------------------------------------------------------------
\* Inputs
\* ------------------------------------------------------------------------

\* pieces of complex names: every keyword, '도담', '우빈가온', '우빈', a blank
\* and '타워' (tower)
Fragments ==
    {village_keywords[k].keyword : k \in DOMAIN village_keywords}
        \cup {Dodam, UbinGaon, <<"u", "bin">>, <<" ">>, <<"ta", "wo">>}

RECURSIVE Names(_)
Names(n) ==
    IF n = 0 THEN {<<>>}
    ELSE Names(n - 1) \cup {a \o f : a \in Names(n - 1), f \in Fragments}

\* a text that is no number
Text == Str(<<"-">>)

\* arguments of classify_village
NameInputs == {Str(s) : s \in Names(MaxFrags)} \cup {None}

\* numbers within Delta of a bound of price_ranges
PricePoints ==
    {b + d : b \in {price_ranges[k][1] : k \in DOMAIN price_ranges}
                   \cup {price_ranges[k][2] : k \in DOMAIN price_ranges},
             d \in (-Delta)..Delta}

\* arguments of classify_price_range
PriceInputs == {Num(p) : p \in PricePoints} \cup {None, Text}

\* numbers within Delta of a bound of area_types
AreaPoints ==
    {b + d : b \in {area_types[k].min : k \in DOMAIN area_types}
                   \cup {area_types[k].max : k \in DOMAIN area_types},
             d \in (-Delta)..Delta}

\* arguments of classify_area_type
AreaInputs == {Num(a) : a \in AreaPoints} \cup {None, Text}

\* '가락마을', a complex name of 가락마을
NameGarak == Str(<<"ga", "rak">> \o Maeul)

\* '도담', a complex name of 도램마을 by its second spelling
NameDodam == Str(Dodam)

\* the records of an input: each of the three fields missing, None, a usual
\* value or (price, area) a text; a column process_data does not read
\* ('complexNo'); a column named like a label ('가격구간')
Items ==
    LET names == {EmptyDict} \cup {F_danjimyeong :> v : v \in {None, NameGarak, NameDodam}}
        prices == {EmptyDict} \cup {F_junggan_maemaega :> v :
                                       v \in {None, Num(0), Num(10000), Num(19999), Text}}
        areas == {EmptyDict} \cup {F_daepyo_myeonjeok :> v : v \in {None, Text}}
        extras == {"complexNo" :> Num(1), F_gagyeok_gugan :> Str(EokDae("1"))}
        area85 == F_daepyo_myeonjeok :> Num(85)
        usual == (F_danjimyeong :> NameGarak) @@ (F_junggan_maemaega :> Num(10000))
    IN  {n @@ p @@ area85 : n \in names, p \in prices}
            \cup {(F_danjimyeong :> NameGarak) @@ p @@ a :
                     p \in {EmptyDict, F_junggan_maemaega :> Num(10000)}, a \in areas}
            \cup {usual @@ area85 @@ e : e \in extras}
            \cup {e : e \in extras}

\* the inputs of process_data: sequences of at most MaxLen records
InputData == UNION {[1..n -> Items] : n \in 0..MaxLen}

\* the records of a sharded input
ShardItems ==
    {n @@ p @@ (F_daepyo_myeonjeok :> Num(85)) :
        n \in {F_danjimyeong :> v : v \in {NameGarak, NameDodam}},
        p \in {EmptyDict} \cup {F_junggan_maemaega :> v :
                                   v \in {None, Num(10000), Num(19999), Num(25000)}}}
        \cup {F_junggan_maemaega :> Text}

ShardData == UNION {[1..n -> ShardItems] : n \in 0..MaxLen}

\* the items of d at the positions in keep, in order
RECURSIVE Select(_, _, _)
Select(d, keep, i) ==
    IF i > Len(d) THEN <<>>
    ELSE (IF i \in keep THEN <<d[i]>> ELSE <<>>) \o Select(d, keep, i + 1)

\* ------------------------------------------------------------------------
\* Specification of main's run of process_data
\* ------------------------------------------------------------------------

\* _request_with_retry has not been called
NoRetry ==
    [url |-> "", max_retries |-> 0, attempt |-> 0, pc |-> "idle",
     requests |-> <<>>, value |-> "", exc |-> "", slept |-> 0]

NoCall == [fn |-> "", arg |-> None, ret |-> Returned(<<>>)]

NoShards == <<<<>>, <<>>>>

NoShardResults == <<NoResult, NoResult>>

\* main has loaded raw_data and is about to call process_data
InitRun ==
    /\ data \in InputData
    /\ pc = "main"
    /\ idx = 0
    /\ processed_data = <<>>
    /\ village_stats = EmptyDict
    /\ price_stats = EmptyDict
    /\ total_count = 0
    /\ result = NoResult

Init ==
    /\ InitRun
    /\ call = NoCall
    /\ shards = NoShards
    /\ shard_results = NoShardResults
    /\ retry = NoRetry

\* process_data is entered: its locals are set up
process_data_enter ==
    /\ pc = "main"
    /\ pc' = "loop"
    /\ idx' = 1
    /\ processed_data' = process_data_locals.processed_data
    /\ village_stats' = process_data_locals.village_stats
    /\ price_stats' = process_data_locals.price_stats
    /\ total_count' = Len(data)
    /\ UNCHANGED <<retry, data, result, call, shardVars>>

\* one iteration of the for loop; an exception leaves process_data and main
process_data_iterate ==
    /\ pc = "loop"
    /\ idx <= Len(data)
    /\ LET st == process_item([processed_data |-> processed_data,
                               village_stats |-> village_stats,
                               price_stats |-> price_stats, exc |-> ""],
                              data[idx])
       IN  /\ processed_data' = st.processed_data
           /\ village_stats' = st.village_stats
           /\ price_stats' = st.price_stats
           /\ pc' = IF st.exc # "" THEN "raised" ELSE "loop"
           /\ idx' = IF st.exc # "" THEN idx ELSE idx + 1
           /\ result' = IF st.exc # "" THEN process_data_result(st, total_count)
                        ELSE result
    /\ UNCHANGED <<retry, data, total_count, call, shardVars>>

\* the loop is over: village_summary is computed and the dict returned
process_data_return ==
    /\ pc = "loop"
    /\ idx > Len(data)
    /\ result' = process_data_result([processed_data |-> processed_data,
                                      village_stats |-> village_stats,
                                      price_stats |-> price_stats, exc |-> ""],
                                     total_count)
    /\ pc' = "done"
    /\ UNCHANGED <<retry, data, idx, processed_data, village_stats, price_stats,
                   total_count, call, shardVars>>

Next ==
    \/ process_data_enter
    \/ process_data_iterate
    \/ process_data_return

Spec == Init /\ [][Next]_vars

\* ------------------------------------------------------------------------
\* Specification of the three classifiers called on their own
\* ------------------------------------------------------------------------

InitClassify ==
    /\ call = NoCall
    /\ data = <<>>
    /\ pc = "main"
    /\ idx = 0
    /\ processed_data = <<>>
    /\ village_stats = EmptyDict
    /\ price_stats = EmptyDict
    /\ total_count = 0
    /\ result = NoResult
    /\ shards = NoShards
    /\ shard_results = NoShardResults
    /\ retry = NoRetry

call_classify_village ==
    /\ call = NoCall
    /\ \E name \in NameInputs :
          call' = [fn |-> "classify_village", arg |-> name,
                   ret |-> classify_village(name)]
    /\ UNCHANGED <<retry, runVars, shardVars>>

call_classify_price_range ==
    /\ call = NoCall
    /\ \E price \in PriceInputs :
          call' = [fn |-> "classify_price_range", arg |-> price,
                   ret |-> classify_price_range(price)]
    /\ UNCHANGED <<retry, runVars, shardVars>>

call_classify_area_type ==
    /\ call = NoCall
    /\ \E area \in AreaInputs :
          call' = [fn |-> "classify_area_type", arg |-> area,
                   ret |-> classify_area_type(area)]
    /\ UNCHANGED <<retry, runVars, shardVars>>

NextClassify ==
    \/ call_classify_village
    \/ call_classify_price_range
    \/ call_classify_area_type

SpecClassify == InitClassify /\ [][NextClassify]_vars

\* ------------------------------------------------------------------------
\* Specification of process_data run on an input and on two shards of it
\* ------------------------------------------------------------------------

InitShard ==
    /\ data \in ShardData
    /\ \E keep \in SUBSET (1..Len(data)) :
          shards = <<Select(data, keep, 1), Select(data, (1..Len(data)) \ keep, 1)>>
    /\ shard_results = NoShardResults
    /\ retry = NoRetry
    /\ result = NoResult
    /\ call = NoCall
    /\ pc = "main"
    /\ idx = 0
    /\ processed_data = <<>>
    /\ village_stats = EmptyDict
    /\ price_stats = EmptyDict
    /\ total_count = 0

\* process_data(data)
process_whole ==
    /\ result.exc = "pending"
    /\ result' = process_data(data)
    /\ UNCHANGED <<retry, call, data, pc, idx, processed_data, village_stats,
                   price_stats, total_count, shardVars>>

\* process_data(shards[k])
process_shard(k) ==
    /\ shard_results[k].exc = "pending"
    /\ shard_results' = [shard_results EXCEPT ![k] = process_data(shards[k])]
    /\ UNCHANGED <<retry, call, runVars, shards>>

NextShard ==
    \/ process_whole
    \/ \E k \in 1..2 : process_shard(k)

SpecShard == InitShard /\ [][NextShard]_vars

\* the step-by-step run and the one-call form of process_data agree
RunAgrees == pc \in {"done", "raised"} => result = process_data(data)

\* ------------------------------------------------------------------------
\* Helpers of the properties
\* ------------------------------------------------------------------------

\* the sum of f over the keys in S
RECURSIVE SumOver(_, _)
SumOver(f, S) ==
    IF S = {} THEN 0
    ELSE LET x == CHOOSE y \in S : TRUE IN f[x] + SumOver(f, S \ {x})

\* process_data has returned its dict to main
Done == pc = "done" /\ result.exc = ""

\* the price of a record is absent, None or zero
PriceUnknown(item) ==
    \/ F_junggan_maemaega \notin DOMAIN item
    \/ item[F_junggan_maemaega] = None
    \/ item[F_junggan_maemaega] = Num(0)

\* the band labels of price_ranges
BandLabels == {price_ranges[k][3] : k \in DOMAIN price_ranges}

\* the labels of villages
VillageLabels == {villages[k] : k \in DOMAIN villages}

\* s without its leading and trailing whitespace
Trimmed(s) ==
    LET solid == {i \in 1..Len(s) : s[i] \notin Whitespace}
    IN  IF solid = {} THEN <<>>
        ELSE SubSeq(s, CHOOSE i \in solid : \A j \in solid : i <= j,
                       CHOOSE i \in solid : \A j \in solid : i >= j)

\* ------------------------------------------------------------------------
\* C1
\* ------------------------------------------------------------------------

\* C1: for every integer price p > 0, classify_price_range(p) returns the
\* label of the band of price_ranges whose interval [low, high) contains p
\* (the last band unbounded above), and the bands are contiguous: when p is
\* the upper bound of a band it is the lower bound of the next one, so p
\* lies in a band.
C1_PriceInBandOfContiguousRanges ==
    (call.fn = "classify_price_range" /\ call.arg.t = "num" /\ call.arg.n > 0) =>
        LET p == call.arg.n
            last == Len(price_ranges)
        IN  /\ \A k \in 1..(last - 1) :
                   p = price_ranges[k][2] => price_ranges[k + 1][1] = p
            /\ \E k \in 1..last :
                   /\ price_ranges[k][1] <= p
                   /\ k = last \/ p < price_ranges[k][2]
                   /\ call.ret = Returned(price_ranges[k][3])

\* ------------------------------------------------------------------------
\* C2
\* ------------------------------------------------------------------------

\* C2: classify_village(name) of a str is the fallback label when the
\* trimmed name contains '우빈가온'; otherwise the village of the keyword of
\* least index in village_keywords that occurs in the name; otherwise
\* '도램마을' when the name contains '도담'; otherwise the fallback label.  The
\* result is one of the 16 village labels or the fallback label.
C2_VillageIsOrderedFirstMatch ==
    (call.fn = "classify_village" /\ call.arg.t = "str") =>
        LET name == Trimmed(call.arg.s)
            hits == {k \in DOMAIN village_keywords :
                        In(village_keywords[k].keyword, name)}
            first == CHOOSE k \in hits : \A j \in hits : k <= j
        IN  /\ call.ret.exc = ""
            /\ call.ret.value =
                   IF In(UbinGaon, name) THEN Gita
                   ELSE IF hits # {} THEN village_keywords[first].village_name
                   ELSE IF In(Dodam, name) THEN DoraemMaeul
                   ELSE Gita
            /\ call.ret.value \in VillageLabels
            /\ Cardinality(VillageLabels \ {Gita}) = 16

\* C2 witness: a name that holds '우빈가온' and a keyword that comes before
\* '가온' in village_keywords was classified as the fallback label
C2_Witness ==
    /\ call.fn = "classify_village"
    /\ call.arg.t = "str"
    /\ In(UbinGaon, call.arg.s)
    /\ In(village_keywords[1].keyword, call.arg.s)
    /\ call.ret = Returned(Gita)

\* ------------------------------------------------------------------------
\* C3
\* ------------------------------------------------------------------------

\* C3: in the returned dict the '단지수' of all villages of village_summary
\* add up to total_count, the number of input records.
C3_VillageCountsSumToTotal ==
    Done =>
        /\ result.total_count = Len(data)
        /\ SumOver([v \in DOMAIN result.village_summary |->
                       result.village_summary[v].danjisu],
                   DOMAIN result.village_summary) = result.total_count

\* ------------------------------------------------------------------------
\* C4
\* ------------------------------------------------------------------------

\* the value of a field is missing, None or not a number
Unusable(item, key) ==
    key \notin DOMAIN item \/ item[key].t # "num"

\* C4: process_data never raises; it returns one labelled record per input
\* record, with the fallback village for a missing or None name and
\* '정보없음' for a missing, None or non-numeric price or area.
C4_ProcessDataIsTotal ==
    /\ pc # "raised"
    /\ Done =>
        /\ Len(result.processed_data) = Len(data)
        /\ \A i \in 1..Len(data) :
              LET item == data[i]
                  out == result.processed_data[i]
              IN  /\ (F_danjimyeong \notin DOMAIN item \/ item[F_danjimyeong] = None)
                        => out[F_maeul_bunryu] = Str(Gita)
                  /\ Unusable(item, F_junggan_maemaega)
                        => out[F_gagyeok_gugan] = Str(JeongboEopseum)
                  /\ Unusable(item, F_daepyo_myeonjeok)
                        => out[F_pyeonghyeong_gugan] = Str(JeongboEopseum)

\* ------------------------------------------------------------------------
\* C5
\* ------------------------------------------------------------------------

\* C5: for every village v of village_summary, '비율' times total_count is
\* 100 times the number of records whose '마을분류' is v, priced or not.
C5_ShareCountsAllRecordsOfVillage ==
    Done =>
        \A v \in DOMAIN result.village_summary :
            LET biyul == result.village_summary[v].biyul
                members == {i \in 1..Len(data) :
                               result.processed_data[i][F_maeul_bunryu] = Str(v)}
            IN  biyul.num * result.total_count
                    = 100 * Cardinality(members) * biyul.den

\* ------------------------------------------------------------------------
\* C6
\* ------------------------------------------------------------------------

CountOf(dist, label) == IF label \in DOMAIN dist THEN dist[label] ELSE 0

\* C7: in the returned dict price_distribution['정보없음'] is the number of
\* records whose price is absent, None or zero; the records labelled
\* '정보없음' are exactly those; the counts of the other labels add up to the
\* number of the other records; and '정보없음' is no band label of
\* price_ranges.
C7_UnknownCountsExactlyUnpriced ==
    Done =>
        LET unknown == {i \in 1..Len(data) : PriceUnknown(data[i])}
            dist == result.price_distribution
        IN  /\ CountOf(dist, JeongboEopseum) = Cardinality(unknown)
            /\ \A i \in 1..Len(data) :
                   (result.processed_data[i][F_gagyeok_gugan] = Str(JeongboEopseum))
                       <=> i \in unknown
            /\ SumOver(dist, DOMAIN dist \ {JeongboEopseum})
                   = Len(data) - Cardinality(unknown)
            /\ JeongboEopseum \notin BandLabels

\* C7 witness: a returned run over a record of price 0 and a record with
\* a price, one counted under '정보없음' and one under a band
C7_Witness ==
    /\ Done
    /\ Len(data) = 2
    /\ \E i \in 1..Len(data) :
          /\ F_junggan_maemaega \in DOMAIN data[i]
          /\ data[i][F_junggan_maemaega] = Num(0)
    /\ \E i \in 1..Len(data) : ~PriceUnknown(data[i])
    /\ result.price_distribution[JeongboEopseum] = 1

\* ------------------------------------------------------------------------
\* C8
\* ------------------------------------------------------------------------

\* C8: in the returned dict the counts of all labels of price_distribution
\* add up to total_count, the number of input records.
C8_PriceCountsSumToTotal ==
    Done =>
        /\ result.total_count = Len(data)
        /\ SumOver(result.price_distribution, DOMAIN result.price_distribution)
               = result.total_count

\* C8 witness: a returned run over two records counted in one band
C8_Witness ==
    /\ Done
    /\ Len(data) = 2
    /\ \E b \in BandLabels :
          /\ b \in DOMAIN result.price_distribution
          /\ result.price_distribution[b] = 2

\* ------------------------------------------------------------------------
\* C9
\* ------------------------------------------------------------------------

\* C9: processed_data holds one record per input record, in input order,
\* and each holds every field of its input record with the same value, plus
\* the three label fields, whatever the field names of the input record.
C9_EveryInputFieldKept ==
    Done =>
        /\ Len(result.processed_data) = Len(data)
        /\ \A i \in 1..Len(data) :
              /\ LabelFields \subseteq DOMAIN result.processed_data[i]
              /\ \A k \in DOMAIN data[i] :
                    /\ k \in DOMAIN result.processed_data[i]
                    /\ result.processed_data[i][k] = data[i][k]

\* C9 as amended: processed_data holds one record per input record, in
\* input order; its fields are those of the input record and the three
\* label fields; every input field not named like a label field has its
\* input value, and the three label fields hold the labels of the record's
\* name, price and area (an input field named like a label field is
\* replaced by the label).
C9_EveryOtherInputFieldKept ==
    Done =>
        /\ Len(result.processed_data) = Len(data)
        /\ \A i \in 1..Len(data) :
              LET item == data[i]
                  out == result.processed_data[i]
              IN  /\ DOMAIN out = DOMAIN item \cup LabelFields
                  /\ \A k \in DOMAIN item \ LabelFields : out[k] = item[k]
                  /\ out[F_maeul_bunryu] =
                        Str(classify_village(Get(item, F_danjimyeong, Str(<<>>))).value)
                  /\ out[F_gagyeok_gugan] =
                        Str(classify_price_range(Get(item, F_junggan_maemaega, Num(0))).value)
                  /\ out[F_pyeonghyeong_gugan] =
                        Str(classify_area_type(Get(item, F_daepyo_myeonjeok, Num(0))).value)

\* C9 witness: a returned run over a record with a field process_data does
\* not read and a record with a field named '가격구간'
C9_Witness ==
    /\ Done
    /\ \E i \in 1..Len(data) :
          /\ "complexNo" \in DOMAIN data[i]
          /\ result.processed_data[i]["complexNo"] = data[i]["complexNo"]
    /\ \E i \in 1..Len(data) :
          /\ F_gagyeok_gugan \in DOMAIN data[i]
          /\ result.processed_data[i][F_gagyeok_gugan] # data[i][F_gagyeok_gugan]

\* ------------------------------------------------------------------------
\* C10
\* ------------------------------------------------------------------------

\* the whole input and both shards have been processed and returned a dict
AllReturned ==
    /\ result.exc = ""
    /\ shard_results[1].exc = ""
    /\ shard_results[2].exc = ""

\* what a returned dict says of village v: count, lowest, highest and sum of
\* the prices (the mean times the count)
VillagePart(r, v) ==
    LET e == r.village_summary[v]
    IN  [count |-> e.danjisu,
         lowest |-> e.choejeo_gagyeok,
         highest |-> e.choego_gagyeok,
         total |-> (e.pyeonggyun_gagyeok.num * e.danjisu) \div e.pyeonggyun_gagyeok.den]

\* two parts of one village merged
MergedPart(a, b) ==
    [count |-> a.count + b.count,
     lowest |-> IF a.lowest <= b.lowest THEN a.lowest ELSE b.lowest,
     highest |-> IF a.highest >= b.highest THEN a.highest ELSE b.highest,
     total |-> a.total + b.total]

\* the merge of the dicts of two shards, for village v of one of them
MergedVillage(a, b, v) ==
    IF v \notin DOMAIN b.village_summary THEN VillagePart(a, v)
    ELSE IF v \notin DOMAIN a.village_summary THEN VillagePart(b, v)
    ELSE MergedPart(VillagePart(a, v), VillagePart(b, v))

\* C10: the dicts process_data returns for two shards of an input, merged
\* (union of villages; per village sum of counts, min of lowest prices, max
\* of highest prices, sum of price sums; per band sum of counts; sum of
\* total_count), give the per-village count, lowest, highest and price sum,
\* the price_distribution and the total_count of the dict process_data
\* returns for the whole input.
C10_ShardsMergeToWhole ==
    AllReturned =>
        LET a == shard_results[1]
            b == shard_results[2]
        IN  /\ DOMAIN result.village_summary
                   = DOMAIN a.village_summary \cup DOMAIN b.village_summary
            /\ \A v \in DOMAIN result.village_summary :
                   VillagePart(result, v) = MergedVillage(a, b, v)
            /\ DOMAIN result.price_distribution
                   = DOMAIN a.price_distribution \cup DOMAIN b.price_distribution
            /\ \A l \in DOMAIN result.price_distribution :
                   result.price_distribution[l]
                       = CountOf(a.price_distribution, l) + CountOf(b.price_distribution, l)
            /\ result.total_count = a.total_count + b.total_count

\* C10 witness: all three calls returned, and one village has a price in
\* each shard, the higher one in the first shard
C10_Witness ==
    /\ AllReturned
    /\ \E v \in DOMAIN shard_results[1].village_summary :
          /\ v \in DOMAIN shard_results[2].village_summary
          /\ shard_results[1].village_summary[v].choejeo_gagyeok
                 > shard_results[2].village_summary[v].choego_gagyeok
          /\ result.village_summary[v].danjisu = 2

\* ------------------------------------------------------------------------
\* main.py: SejongRealEstateExtractor._request_with_retry
\* ------------------------------------------------------------------------

\* the default of the parameter max_retries; no caller passes another value
DefaultMaxRetries == 3

\* the URLs the four callers build (get_sejong_regions,
\* get_complexes_by_region, get_complex_detail, get_articles)
Urls == {"/regions/list", "/regions/complexes", "/complexes", "/articles/complex"}

\* what a failed attempt raises inside the try block, each a
\* requests.exceptions.RequestException: requests.get (ConnectionError,
\* Timeout), response.raise_for_status (HTTPError), response.json
\* (JSONDecodeError)
RequestErrors == {"ConnectionError", "Timeout", "HTTPError", "JSONDecodeError"}

\* the JSON values response.json() gives
Bodies == {"{}", "{\"complexes\": []}"}

\* one HTTP request of the call and how its attempt ended
Succeeded(body) == [error |-> "", body |-> body]

Failed(error) == [error |-> error, body |-> ""]

\* time.sleep(self.delay) with self.delay = 0.5, in half seconds
DelaySleep == 1

\* time.sleep(2 ** attempt), in half seconds
BackoffSleep(attempt) == 2 * (2 ^ attempt)

\* the half seconds slept before the exception e of an attempt was raised:
\* response.json() is called after time.sleep(self.delay)
SleptBefore(e) == IF e = "JSONDecodeError" THEN DelaySleep ELSE 0

\* `for attempt in range(max_retries)` with the next value a: the loop body
\* runs, or the loop ends and the function ends with no return statement
LoopOrEnd(a, max_retries) == IF a < max_retries THEN "loop" ELSE "fell_through"

\* mutant: the last attempt is retried too (`attempt < max_retries`)
retry_again_OffByOne(attempt, max_retries) == attempt < max_retries

\* `if attempt < max_retries - 1`
retry_again(attempt, max_retries) == attempt < max_retries - 1

InitRetry ==
    /\ retry = NoRetry
    /\ call = NoCall
    /\ data = <<>>
    /\ pc = "main"
    /\ idx = 0
    /\ processed_data = <<>>
    /\ village_stats = EmptyDict
    /\ price_stats = EmptyDict
    /\ total_count = 0
    /\ result = NoResult
    /\ shards = NoShards
    /\ shard_results = NoShardResults

\* a caller calls self._request_with_retry(url): the for loop starts
request_with_retry_enter ==
    /\ retry.pc = "idle"
    /\ \E url \in Urls :
          retry' = [retry EXCEPT !.url = url,
                                 !.max_retries = DefaultMaxRetries,
                                 !.attempt = 0,
                                 !.pc = LoopOrEnd(0, DefaultMaxRetries)]
    /\ UNCHANGED <<call, runVars, shardVars>>

\* an attempt whose try block runs to its return
attempt_returns ==
    /\ retry.pc = "loop"
    /\ \E body \in Bodies :
          retry' = [retry EXCEPT !.requests = Append(@, Succeeded(body)),
                                 !.slept = @ + DelaySleep,
                                 !.value = body,
                                 !.pc = "returned"]
    /\ UNCHANGED <<call, runVars, shardVars>>

\* an attempt whose try block raises and that is followed by another one
attempt_fails_and_backs_off ==
    /\ retry.pc = "loop"
    /\ retry_again(retry.attempt, retry.max_retries)
    /\ \E e \in RequestErrors :
          retry' = [retry EXCEPT !.requests = Append(@, Failed(e)),
                                 !.slept = @ + SleptBefore(e) + BackoffSleep(retry.attempt),
                                 !.attempt = @ + 1,
                                 !.pc = LoopOrEnd(retry.attempt + 1, retry.max_retries)]
    /\ UNCHANGED <<call, runVars, shardVars>>

\* an attempt whose try block raises and whose exception is raised again
attempt_fails_and_raises ==
    /\ retry.pc = "loop"
    /\ ~retry_again(retry.attempt, retry.max_retries)
    /\ \E e \in RequestErrors :
          retry' = [retry EXCEPT !.requests = Append(@, Failed(e)),
                                 !.slept = @ + SleptBefore(e),
                                 !.exc = e,
                                 !.pc = "raised"]
    /\ UNCHANGED <<call, runVars, shardVars>>

NextRetry ==
    \/ request_with_retry_enter
    \/ attempt_returns
    \/ attempt_fails_and_backs_off
    \/ attempt_fails_and_raises

SpecRetry == InitRetry /\ [][NextRetry]_vars

\* ------------------------------------------------------------------------
\* C11
\* ------------------------------------------------------------------------

\* C11: one call of _request_with_retry issues at most max_retries HTTP
\* requests; a request that succeeds is the last one and the call returns
\* its response body; the call raises exactly when max_retries requests
\* were issued and all failed, and then raises the last request's error;
\* and the call never ends without returning or raising.
C11_RetryReturnsFirstSuccessOrRaises ==
    LET n == Len(retry.requests)
        failed == {i \in 1..n : retry.requests[i].error \in RequestErrors}
        ok == (1..n) \ failed
    IN  /\ n <= retry.max_retries
        /\ \A i \in ok : i = n /\ retry.pc = "returned"
        /\ retry.pc = "returned" =>
              /\ n \in ok
              /\ retry.value = retry.requests[n].body
              /\ retry.value \in Bodies
        /\ retry.pc = "raised" <=>
              (retry.pc # "idle" /\ n = retry.max_retries /\ failed = 1..n)
        /\ retry.pc = "raised" => retry.exc = retry.requests[n].error
        /\ retry.pc # "fell_through"

\* C11 witness: the call returned the body of its max_retries-th request
\* after all the earlier ones had failed
C11_Witness ==
    /\ retry.pc = "returned"
    /\ Len(retry.requests) = retry.max_retries
    /\ retry.max_retries > 1
    /\ retry.value = retry.requests[retry.max_retries].body

====
